---------------------------- MODULE Spec2Model ----------------------------
(***************************************************************************)
(* A model of the MongoDB extension's Atlas API client                     *)
(* (AtlasApiController, AtlasStorage) and of the extension controller's    *)
(* activation and deep-link handling (MDBExtensionController).             *)
(*                                                                         *)
(* Every async function of the client is a call: a record with a program   *)
(* counter that stops at the awaits where the host, the user or the        *)
(* network answers.  The code between two such awaits runs in one step,    *)
(* as it does on the extension host's single event loop.                   *)
(***************************************************************************)
EXTENDS Integers, Sequences, FiniteSets, TLC

(***************************************************************************)
(* Bounds of the model.                                                    *)
(***************************************************************************)
MaxTime == 1
MaxIssued == 2
MaxControllers == 2
\* expires_in of the token endpoint's answers, in ticks of the clock.
TokenLifetime == 1

\* The calls in flight at a time: the one a property speaks of and a
\* concurrent one.
Calls == {"c1", "c2"}

(***************************************************************************)
(* Values.                                                                 *)
(***************************************************************************)
Null == "null"
Undefined == "undefined"

\* _tokenData = null
NoToken == [accessToken |-> 0, expiresAt |-> 0]
\* _clientCreds = null
NoCreds == [clientId |-> Null, clientSecret |-> Null]

ClientIds == {"idA"}
Secrets == {"s1"}

\* Variant: every secret is kept under one key.
SecretKey_Fixed(clientId) == <<"atlasClientSecret_", Null>>

\* 'atlasClientSecret_' + clientId
SecretKey(clientId) == <<"atlasClientSecret_", clientId>>

\* The keys of the secret store.
SecretKeys == {<<"atlasClientSecret_", id>> : id \in ClientIds \cup {Null}}

\* What the server's non-success responses say (response.statusText).
StatusTexts == {"Unauthorized", "Forbidden"}

Ops == {"getProjects", "getProjectId", "selectCluster",
        "fetchSchemaAdvice", "fetchSuggestedIndexes"}

\* AtlasProject records the project-list endpoint may return.
P1 == [id |-> "p1", name |-> "A"]
P2 == [id |-> "p2", name |-> "B"]

\* ProjectsResponseBody: totalCount and results.
ProjectsBody(s) == [totalCount |-> Len(s), results |-> s]
NoBody == ProjectsBody(<<>>)
ProjectBodies == {ProjectsBody(s) : s \in {<<>>, <<P1>>, <<P2>>, <<P1, P2>>}}

\* AtlasCluster records: name and connectionStrings.standardSrv (a string
\* is a sequence of characters).
K1 == [name |-> "k1", srv |-> <<"a", "b", "c", "d">>]
K2 == [name |-> "k2", srv |-> <<"c">>]
K3 == [name |-> "k3", srv |-> <<"x">>]
\* ClustersResponseBody: totalCount and results.
ClustersBody(s) == [totalCount |-> Len(s), results |-> s]
ClusterBodies ==
    {ClustersBody(s) : s \in {<<>>, <<K3>>, <<K3, K1>>, <<K3, K2, K1>>}}
\* The connectionString option of selectCluster; <<>> is "not given".
ConnStrings == {<<>>, <<"b", "c">>}

\* A Response of fetch: the endpoint it came from, response.ok and
\* response.statusText.
NoResponse == [url |-> "none", ok |-> TRUE, statusText |-> ""]
Success(url) == [url |-> url, ok |-> TRUE, statusText |-> "OK"]
Failure(url, statusText) == [url |-> url, ok |-> FALSE, statusText |-> statusText]

NoResult == [kind |-> "none", id |-> Null, prefix |-> "", statusText |-> ""]

VARIABLES
    now,            \* the clock read by new Date() and Date.now()
    tokenData,      \* AtlasApiController._tokenData
    clientCreds,    \* AtlasApiController._clientCreds
    projectId,      \* AtlasApiController._projectId
    storedClientId, \* workspace storage, ATLAS_CLIENT_ID
    secrets,        \* secret storage, atlasClientSecret_<clientId>
    issued,         \* how many tokens the token endpoint has issued
    calls           \* the calls of the controller's methods in progress

VARIABLES
    optedIn,        \* the setting mdb.atlas.optedIn
    globalClientId, \* global storage, ATLAS_CLIENT_ID
    clearing,       \* clearCredentials in progress: the client ID it read
    controllers     \* how many AtlasApiControllers were constructed

storeVars == <<optedIn, globalClientId, clearing, controllers>>

atlasVars == <<now, tokenData, clientCreds, projectId, storedClientId,
               secrets, issued, calls, storeVars>>

VARIABLES
    activation,          \* activate(): where it is and what it has done
    hasBeenShown,        \* storage, GLOBAL_HAS_BEEN_SHOWN_INITIAL_VIEW
    hasSavedConnections, \* ConnectionStorage.hasSavedConnections()
    overviewOpened,      \* how often MDB_OPEN_OVERVIEW_PAGE was executed
    link,                \* the deep link _handleDeepLink is handling
    prevLink             \* the deep link handled before it

VARIABLES
    participant,    \* whether ParticipantController.getParticipant() has one
    cmd,            \* the invocation of a registered command in progress
    deact,          \* deactivate() / dispose(): where it is, what it called
    sessions        \* activations so far over the same storage

cmdVars == <<participant, cmd, deact, sessions>>

extVars == <<activation, hasBeenShown, hasSavedConnections, overviewOpened,
             link, prevLink, cmdVars>>

vars == <<atlasVars, extVars>>

IdleCall == [op |-> "none", pc |-> "idle", ep |-> "none",
             pid |-> Null, cs |-> <<>>, cid |-> Null, sec |-> Null,
             entry |-> "none",
             tokReqs |-> 0, apiReqs |-> 0,
             myToken |-> 0, sentToken |-> 0, body |-> NoBody,
             response |-> NoResponse, picks |-> 0, result |-> NoResult]

(***************************************************************************)
(* Errors: new Error(`${prefix}${statusText}`).                            *)
(***************************************************************************)
\* A call that has ended keeps its operation, the response and the body it
\* last read, the number of quick picks it showed and its outcome.
Ended(r, result) ==
    [IdleCall EXCEPT !.op = r.op, !.pc = "done", !.response = r.response,
                     !.body = r.body, !.picks = r.picks, !.result = result]

Throw(r, prefix, statusText) ==
    Ended(r, [NoResult EXCEPT !.kind = "throw", !.prefix = prefix,
                              !.statusText = statusText])

\* return <a string or null>
ReturnId(r, id) == Ended(r, [NoResult EXCEPT !.kind = "return", !.id = id])

\* return await response.json()
ReturnBody(r) == Ended(r, [NoResult EXCEPT !.kind = "return", !.id = "body"])

(***************************************************************************)
(* _makeRequest and _refreshAccessToken.                                   *)
(***************************************************************************)
\* Variants of the staleness check: a token is kept through the tick it
\* expires at; every request refreshes.
IsStale_Strict(td, t) == td = NoToken \/ td.expiresAt < t
IsStale_Always(td, t) == TRUE
IsStale_NullOnly(td, t) == td = NoToken

\* !this._tokenData || this._tokenData.expiresAt <= new Date()
IsStale(td, t) == td = NoToken \/ td.expiresAt <= t

\* Variant: the request carries the token its own refresh obtained.
Bearer_Own(r, td) == IF r.myToken # 0 THEN r.myToken ELSE td.accessToken

\* Authorization: `Bearer ${this._tokenData.accessToken}`
Bearer(r, td) == td.accessToken

\* fetch(url, options): the request to the Atlas API endpoint leaves.
SendApi(r) ==
    [r EXCEPT !.pc = "apiWait",
              !.apiReqs = @ + 1,
              !.sentToken = Bearer(r, tokenData)]

\* fetch(AUTH_URL, ...): the request to the token endpoint leaves.
SendTokenRequest(r) ==
    [r EXCEPT !.pc = "tokenWait", !.tokReqs = @ + 1]

\* AtlasStorage.getStoredClientId: ATLAS_CLIENT_ID of the workspace storage.
GetStoredClientId == storedClientId

\* AtlasStorage.getStoredClientSecret
GetStoredClientSecret ==
    IF GetStoredClientId = Null THEN Null
    ELSE secrets[SecretKey(GetStoredClientId)]

\* Variant: the client ID is asked for whatever is stored.
LoadOrSaveClientCreds_AlwaysPrompt(r) == [r EXCEPT !.pc = "promptId"]

\* _loadOrSaveClientCredsWithInputBox up to its first await: with a stored
\* client ID the secret is read, otherwise the Client ID prompt opens.
LoadOrSaveClientCreds(r) ==
    IF GetStoredClientId # Null
    THEN [r EXCEPT !.pc = "secretRead", !.cid = GetStoredClientId]
    ELSE [r EXCEPT !.pc = "promptId"]

\* _refreshAccessToken up to its first await, _getClientCreds included.
RefreshAccessToken(r) ==
    IF clientCreds # NoCreds
    THEN SendTokenRequest(r)
    ELSE LoadOrSaveClientCreds(r)

\* What _makeRequest finds when it is entered (kept for the properties).
Entered(r, ep) ==
    [r EXCEPT !.ep = ep,
              !.entry = IF tokenData.accessToken = 0 THEN "absent"
                        ELSE IF now >= tokenData.expiresAt THEN "expired"
                        ELSE "fresh",
              !.tokReqs = 0, !.apiReqs = 0,
              !.myToken = 0, !.sentToken = 0,
              !.response = NoResponse, !.body = NoBody]

\* _makeRequest up to its first await.
MakeRequest(r, ep) ==
    IF IsStale(tokenData, now)
    THEN RefreshAccessToken(Entered(r, ep))
    ELSE SendApi(Entered(r, ep))

\* _makeRequest after `await this._refreshAccessToken(stream)`.
AfterRefreshStep(r) ==
    IF tokenData = NoToken
    THEN Throw(r, "Failed to refresh access token", "")
    ELSE SendApi(r)

\* The response to the API request is in: _makeRequest is over, and what
\* was kept about it is dropped.
Responded(r, body) ==
    [r EXCEPT !.entry = "none", !.tokReqs = 0, !.apiReqs = 0,
              !.myToken = 0, !.sentToken = 0,
              !.response = Success(r.ep), !.body = body]

(***************************************************************************)
(* getProjectId and selectCluster after the responses.                     *)
(***************************************************************************)
\* String.prototype.includes
Includes(a, b) ==
    \E i \in 0..(Len(a) - Len(b)) : SubSeq(a, i + 1, i + Len(b)) = b

\* Array.prototype.find by name: the place of the first element with that
\* name, 0 when there is none.
FindByName(results, name) ==
    LET hits == {i \in 1..Len(results) : results[i].name = name}
    IN  IF hits = {} THEN 0
        ELSE CHOOSE i \in hits : \A j \in hits : i <= j

\* Variant: a single project is offered in the quick pick like any other.
AutoProject_AlwaysPick(body) == IF body.totalCount = 0 THEN Null ELSE "pick"

\* getProjectId between the project list and the quick pick: the ID it
\* settles on by itself ("pick" when the user is to be asked).
AutoProject(body) ==
    IF body.totalCount = 0 THEN Null
    ELSE IF body.totalCount = 1 THEN body.results[1].id
    ELSE "pick"

\* getProjectId after `showQuickPick(projectNames)` answered `name`.
PickedProject(body, name) ==
    IF name = Null THEN Null
    ELSE IF FindByName(body.results, name) = 0 THEN Null
    ELSE body.results[FindByName(body.results, name)].id

\* The caller's use of getProjectId's result: getProjectId returns it,
\* selectCluster returns null without it and asks for the clusters with it.
GotProjectId(r, id) ==
    IF r.op = "getProjectId" THEN ReturnId(r, id)
    ELSE IF id = Null THEN ReturnId(r, Null)
    ELSE MakeRequest(r, "clusters")

\* Variant: only a cluster whose standardSrv is part of the connection
\* string matches.
MatchingCluster_OneWay(body, cs) ==
    LET hits == {i \in 1..Len(body.results) : Includes(cs, body.results[i].srv)}
    IN  IF cs = <<>> \/ hits = {} THEN Null
        ELSE body.results[CHOOSE i \in hits : \A j \in hits : i <= j].name

\* selectCluster: the cluster whose standardSrv matches the connection
\* string (Null when none does or no connection string is given).
MatchingCluster(body, cs) ==
    LET hits == {i \in 1..Len(body.results) :
                    \/ Includes(body.results[i].srv, cs)
                    \/ Includes(cs, body.results[i].srv)}
    IN  IF cs = <<>> \/ hits = {} THEN Null
        ELSE body.results[CHOOSE i \in hits : \A j \in hits : i <= j].name

\* selectCluster after `showQuickPick(clusterNames)` answered `name`.
PickedCluster(body, name) ==
    IF name = Null THEN Null
    ELSE IF FindByName(body.results, name) = 0 THEN Null
    ELSE body.results[FindByName(body.results, name)].name

\* The error a non-success response of an API endpoint is turned into.
FailurePrefix(ep) ==
    CASE ep = "groups" -> "Failed to fetch projects: "
      [] ep = "clusters" -> "Failed to fetch clusters: "
      [] ep = "schemaAdvice" -> "Failed to fetch schema advice: "
      [] ep = "suggestedIndexes" -> "Failed to fetch suggested indexes: "

\* Variants: the error does not say what the response said; the request
\* is sent once more before giving up.
OnApiFailure_Generic(r) == Throw(r, FailurePrefix(r.ep), "")
OnApiFailure_Retry(r) ==
    IF r.apiReqs < 2 THEN SendApi(r) ELSE Throw(r, FailurePrefix(r.ep), r.response.statusText)

\* if (!response.ok) { ... throw new Error(`...: ${response.statusText}`) }
OnApiFailure(r) == Throw(r, FailurePrefix(r.ep), r.response.statusText)

\* Variant: a failed refresh is ignored and the API request is sent.
OnTokenFailure_Proceed(r) == SendApi(r)

\* if (!response.ok) throw new Error(`Failed to refresh access token: ...`)
OnTokenFailure(r) ==
    Throw(r, "Failed to refresh access token: ", r.response.statusText)

(***************************************************************************)
(* The calls of the public methods.                                        *)
(***************************************************************************)
Begin(op) == [IdleCall EXCEPT !.op = op]

GetProjects(c) ==
    /\ calls[c].pc \in {"idle", "done"}
    /\ calls' = [calls EXCEPT ![c] = MakeRequest(Begin("getProjects"), "groups")]
    /\ UNCHANGED <<extVars, storeVars, now, tokenData, clientCreds, projectId, storedClientId,
                   secrets, issued>>

\* Variant: the project list is fetched whether or not an ID is cached.
GetProjectIdStep_NoCache(r) == MakeRequest(r, "groups")

\* getProjectId up to its first await.
GetProjectIdStep(r) ==
    IF projectId # Null
    THEN GotProjectId(r, projectId)
    ELSE MakeRequest(r, "groups")

GetProjectId(c) ==
    /\ calls[c].pc \in {"idle", "done"}
    /\ calls' = [calls EXCEPT ![c] = GetProjectIdStep(Begin("getProjectId"))]
    /\ UNCHANGED <<extVars, storeVars, now, tokenData, clientCreds, projectId, storedClientId,
                   secrets, issued>>

\* selectCluster up to its first await.
SelectClusterStep(r) ==
    IF r.pid = Null
    THEN GetProjectIdStep(r)
    ELSE MakeRequest(r, "clusters")

SelectCluster(c) ==
    /\ calls[c].pc \in {"idle", "done"}
    /\ \E pid \in {Null, "p1"}, cs \in ConnStrings :
          calls' = [calls EXCEPT ![c] =
              SelectClusterStep([Begin("selectCluster") EXCEPT !.pid = pid,
                                                               !.cs = cs])]
    /\ UNCHANGED <<extVars, storeVars, now, tokenData, clientCreds, projectId, storedClientId,
                   secrets, issued>>

FetchSchemaAdvice(c) ==
    /\ calls[c].pc \in {"idle", "done"}
    /\ calls' = [calls EXCEPT ![c] =
                    MakeRequest(Begin("fetchSchemaAdvice"), "schemaAdvice")]
    /\ UNCHANGED <<extVars, storeVars, now, tokenData, clientCreds, projectId, storedClientId,
                   secrets, issued>>

FetchSuggestedIndexes(c) ==
    /\ calls[c].pc \in {"idle", "done"}
    /\ calls' = [calls EXCEPT ![c] =
                    MakeRequest(Begin("fetchSuggestedIndexes"), "suggestedIndexes")]
    /\ UNCHANGED <<extVars, storeVars, now, tokenData, clientCreds, projectId, storedClientId,
                   secrets, issued>>

(***************************************************************************)
(* _loadOrSaveClientCredsWithInputBox after its awaits.                    *)
(***************************************************************************)
\* `await this._atlasStorage.getStoredClientSecret()` answers.
SecretRead(c) ==
    LET r == calls[c]
        secret == secrets[SecretKey(r.cid)]
    IN  /\ r.pc = "secretRead"
        /\ IF secret # Null
           THEN /\ clientCreds' = [clientId |-> r.cid, clientSecret |-> secret]
                /\ calls' = [calls EXCEPT ![c] =
                                SendTokenRequest([r EXCEPT !.cid = Null])]
           ELSE /\ calls' = [calls EXCEPT ![c].pc = "promptSecret"]
                /\ UNCHANGED clientCreds
        /\ UNCHANGED <<extVars, storeVars, now, tokenData, projectId, storedClientId, secrets,
                       issued>>

\* if (!clientId) throw new Error('Client ID is required')
OnNoClientId(r) == Throw(r, "Client ID is required", "")

\* Variant: an empty client secret is taken as it is.
OnNoClientSecret_Accept(r) == [r EXCEPT !.pc = "saveId", !.sec = ""]

\* if (!clientSecret) throw new Error('Client Secret is required')
OnNoClientSecret(r) == Throw(r, "Client Secret is required", "")

\* showInputBox({prompt: 'Enter your Atlas Client ID'}) answers.
PromptClientId(c) ==
    LET r == calls[c]
    IN  /\ r.pc = "promptId"
        /\ \E answer \in ClientIds \cup {Null, ""} :
              calls' = [calls EXCEPT ![c] =
                  IF answer \in {Null, ""}
                  THEN OnNoClientId(r)
                  ELSE [r EXCEPT !.pc = "promptSecret", !.cid = answer]]
        /\ UNCHANGED <<extVars, storeVars, now, tokenData, clientCreds, projectId, storedClientId,
                       secrets, issued>>

\* showInputBox({prompt: 'Enter your Atlas Client Secret'}) answers; with a
\* secret, setClientId is called.
PromptClientSecret(c) ==
    LET r == calls[c]
    IN  /\ r.pc = "promptSecret"
        /\ \E answer \in Secrets \cup {Null, ""} :
              calls' = [calls EXCEPT ![c] =
                  IF answer \in {Null, ""}
                  THEN OnNoClientSecret(r)
                  ELSE [r EXCEPT !.pc = "saveId", !.sec = answer]]
        /\ UNCHANGED <<extVars, storeVars, now, tokenData, clientCreds, projectId, storedClientId,
                       secrets, issued>>

\* `await this._atlasStorage.setClientId(clientId)` completes, and
\* setClientSecret is called.
SaveClientId(c) ==
    LET r == calls[c]
    IN  /\ r.pc = "saveId"
        /\ storedClientId' = r.cid
        /\ calls' = [calls EXCEPT ![c].pc = "saveSecret"]
        /\ UNCHANGED <<extVars, storeVars, now, tokenData, clientCreds, projectId, secrets, issued>>

\* `await this._atlasStorage.setClientSecret(clientSecret)` completes:
\* the credentials are cached and _refreshAccessToken goes on to its fetch.
SaveClientSecret(c) ==
    LET r == calls[c]
    IN  /\ r.pc = "saveSecret"
        /\ secrets' = [secrets EXCEPT ![SecretKey(r.cid)] = r.sec]
        /\ clientCreds' = [clientId |-> r.cid, clientSecret |-> r.sec]
        /\ calls' = [calls EXCEPT ![c] =
                        SendTokenRequest([r EXCEPT !.cid = Null, !.sec = Null])]
        /\ UNCHANGED <<extVars, storeVars, now, tokenData, projectId, storedClientId, issued>>

(***************************************************************************)
(* The token endpoint answers.                                             *)
(***************************************************************************)
TokenResponse(c) ==
    LET r == calls[c]
    IN  /\ r.pc = "tokenWait"
        /\ \/ /\ issued < MaxIssued
              /\ tokenData' = [accessToken |-> issued + 1,
                               expiresAt |-> now + TokenLifetime]
              /\ issued' = issued + 1
              /\ calls' = [calls EXCEPT ![c] =
                              [r EXCEPT !.pc = "afterRefresh",
                                        !.myToken = issued + 1]]
           \/ /\ \E statusText \in StatusTexts :
                    calls' = [calls EXCEPT ![c] = OnTokenFailure(
                        [r EXCEPT !.response = Failure("token", statusText)])]
              /\ UNCHANGED <<tokenData, issued>>
        /\ UNCHANGED <<extVars, storeVars, now, clientCreds, projectId, storedClientId, secrets>>

\* _makeRequest goes on after `await this._refreshAccessToken(stream)`.
AfterRefresh(c) ==
    /\ calls[c].pc = "afterRefresh"
    /\ calls' = [calls EXCEPT ![c] = AfterRefreshStep(calls[c])]
    /\ UNCHANGED <<extVars, storeVars, now, tokenData, clientCreds, projectId, storedClientId,
                   secrets, issued>>

(***************************************************************************)
(* The Atlas API answers.                                                  *)
(***************************************************************************)
ApiFailure(c) ==
    /\ calls[c].pc = "apiWait"
    /\ \E statusText \in StatusTexts :
          calls' = [calls EXCEPT ![c] = OnApiFailure(
              [calls[c] EXCEPT !.response = Failure(calls[c].ep, statusText)])]
    /\ UNCHANGED <<extVars, storeVars, now, tokenData, clientCreds, projectId, storedClientId,
                   secrets, issued>>

\* The project list arrives: getProjects returns it; getProjectId goes on.
ProjectsResponse(c) ==
    LET r == calls[c]
    IN  /\ r.pc = "apiWait"
        /\ r.ep = "groups"
        /\ \E body \in ProjectBodies :
              LET got == Responded(r, body)
                  id == AutoProject(body)
              IN  IF r.op = "getProjects"
                  THEN /\ calls' = [calls EXCEPT ![c] = ReturnBody(got)]
                       /\ UNCHANGED projectId
                  ELSE IF id = "pick"
                  THEN /\ calls' = [calls EXCEPT ![c] =
                                       [got EXCEPT !.pc = "pickProject",
                                                   !.picks = @ + 1]]
                       /\ UNCHANGED projectId
                  ELSE /\ projectId' = IF id = Null THEN projectId ELSE id
                       /\ calls' = [calls EXCEPT ![c] = GotProjectId(got, id)]
        /\ UNCHANGED <<extVars, storeVars, now, tokenData, clientCreds, storedClientId, secrets,
                       issued>>

\* showQuickPick(projectNames, {placeHolder: 'Select a project'}) answers.
PickProject(c) ==
    LET r == calls[c]
    IN  /\ r.pc = "pickProject"
        /\ \E name \in {r.body.results[i].name : i \in 1..Len(r.body.results)}
                       \cup {Null} :
              LET id == PickedProject(r.body, name)
              IN  /\ projectId' = IF id = Null THEN projectId ELSE id
                  /\ calls' = [calls EXCEPT ![c] = GotProjectId(r, id)]
        /\ UNCHANGED <<extVars, storeVars, now, tokenData, clientCreds, storedClientId, secrets,
                       issued>>

\* The cluster list arrives.
ClustersResponse(c) ==
    LET r == calls[c]
    IN  /\ r.pc = "apiWait"
        /\ r.ep = "clusters"
        /\ \E body \in ClusterBodies :
              LET got == Responded(r, body)
              IN  calls' = [calls EXCEPT ![c] =
                      IF body.totalCount = 0 THEN ReturnId(got, Null)
                      ELSE IF MatchingCluster(body, r.cs) # Null
                      THEN ReturnId(got, MatchingCluster(body, r.cs))
                      ELSE [got EXCEPT !.pc = "pickCluster", !.picks = @ + 1]]
        /\ UNCHANGED <<extVars, storeVars, now, tokenData, clientCreds, projectId, storedClientId,
                       secrets, issued>>

\* showQuickPick(clusterNames, {placeHolder: 'Select a cluster'}) answers.
PickCluster(c) ==
    LET r == calls[c]
    IN  /\ r.pc = "pickCluster"
        /\ \E name \in {r.body.results[i].name : i \in 1..Len(r.body.results)}
                       \cup {Null} :
              calls' = [calls EXCEPT ![c] =
                           ReturnId(r, PickedCluster(r.body, name))]
        /\ UNCHANGED <<extVars, storeVars, now, tokenData, clientCreds, projectId, storedClientId,
                       secrets, issued>>

\* The schema advice or the suggested indexes arrive.
AdviceResponse(c) ==
    LET r == calls[c]
    IN  /\ r.pc = "apiWait"
        /\ r.ep \in {"schemaAdvice", "suggestedIndexes"}
        /\ calls' = [calls EXCEPT ![c] = ReturnId(Responded(r, NoBody), r.ep)]
        /\ UNCHANGED <<extVars, storeVars, now, tokenData, clientCreds, projectId, storedClientId,
                       secrets, issued>>

(***************************************************************************)
(* isOptedIn.                                                              *)
(***************************************************************************)
\* Variant: the question is asked whatever is stored.
IsOptedInStep_AlwaysPrompt(r) == [r EXCEPT !.pc = "optPrompt", !.picks = @ + 1]

\* isOptedIn up to its first await: the stored value is returned, or the
\* modal question is shown.
IsOptedInStep(r) ==
    IF optedIn = Null
    THEN [r EXCEPT !.pc = "optPrompt", !.picks = @ + 1]
    ELSE ReturnId(r, optedIn)

IsOptedIn(c) ==
    /\ calls[c].pc \in {"idle", "done"}
    /\ calls' = [calls EXCEPT ![c] = IsOptedInStep(Begin("isOptedIn"))]
    /\ UNCHANGED <<extVars, storeVars, now, tokenData, clientCreds, projectId,
                   storedClientId, secrets, issued>>

\* showInformationMessage(..., {title: 'Yes'}, {title: 'No'}) answers;
\* Undefined is the dismissed dialog.
OptInAnswered(c) ==
    LET r == calls[c]
    IN  /\ r.pc = "optPrompt"
        /\ \E answer \in {Undefined, "Yes", "No"} :
              calls' = [calls EXCEPT ![c] =
                  IF answer = Undefined THEN ReturnId(r, "false")
                  ELSE IF answer = "Yes" THEN [r EXCEPT !.pc = "setOptedInTrue"]
                  ELSE [r EXCEPT !.pc = "setOptedInFalse"]]
        /\ UNCHANGED <<extVars, storeVars, now, tokenData, clientCreds,
                       projectId, storedClientId, secrets, issued>>

\* `await this._atlasStorage.setOptedIn(...)` completes.
OptInStored(c) ==
    LET r == calls[c]
        value == IF r.pc = "setOptedInTrue" THEN "true" ELSE "false"
    IN  /\ r.pc \in {"setOptedInTrue", "setOptedInFalse"}
        /\ optedIn' = value
        /\ calls' = [calls EXCEPT ![c] = ReturnId(r, value)]
        /\ UNCHANGED <<extVars, globalClientId, clearing, controllers, now,
                       tokenData, clientCreds, projectId, storedClientId,
                       secrets, issued>>

(***************************************************************************)
(* AtlasStorage.clearCredentials, and a new controller over the storage.   *)
(***************************************************************************)
\* The storage location StorageController.update writes when it is passed
\* none, as the controller's use of GLOBAL_HAS_BEEN_SHOWN_INITIAL_VIEW has
\* it.
DefaultLocation == "GLOBAL"

\* clearCredentials up to its await: without a stored client ID it
\* returns, with one it starts the update of ATLAS_CLIENT_ID and the
\* deletion of the secret.
ClearCredentials ==
    /\ clearing = Null
    /\ clearing' = GetStoredClientId
    /\ UNCHANGED <<extVars, optedIn, globalClientId, controllers, now,
                   tokenData, clientCreds, projectId, storedClientId, secrets,
                   issued, calls>>

\* `await Promise.all([update(ATLAS_CLIENT_ID, undefined), deleteSecret(
\* 'atlasClientSecret_' + clientId)])` completes.
CredentialsCleared ==
    /\ clearing # Null
    /\ storedClientId' = IF DefaultLocation = "WORKSPACE" THEN Null
                         ELSE storedClientId
    /\ globalClientId' = IF DefaultLocation = "GLOBAL" THEN Null
                         ELSE globalClientId
    /\ secrets' = [secrets EXCEPT ![SecretKey(clearing)] = Null]
    /\ clearing' = Null
    /\ UNCHANGED <<extVars, optedIn, controllers, now, tokenData, clientCreds,
                   projectId, issued, calls>>

\* new AtlasApiController({storageController}): nothing is cached in it.
NewController ==
    /\ controllers < MaxControllers
    /\ \A c \in Calls : calls[c].pc \in {"idle", "done"}
    /\ controllers' = controllers + 1
    /\ tokenData' = NoToken
    /\ clientCreds' = NoCreds
    /\ projectId' = Null
    /\ calls' = [c \in Calls |-> IdleCall]
    /\ UNCHANGED <<extVars, optedIn, globalClientId, clearing, now,
                   storedClientId, secrets, issued>>

\* Time passes.
Tick ==
    /\ now < MaxTime
    /\ now' = now + 1
    /\ UNCHANGED <<extVars, storeVars, tokenData, clientCreds, projectId, storedClientId,
                   secrets, issued, calls>>

(***************************************************************************)
(* MDBExtensionController: activate and the deep links.                    *)
(***************************************************************************)
\* Strings are sequences of characters.
Slash == <<"/">>
MdbPrefix == <<"m", "d", "b", ".">>

\* The URI paths of the deep links: leading slashes, up to MaxPrefixes
\* times 'mdb.', and a name.
MaxPrefixes == 2
Leads == {<<>>, Slash, Slash \o Slash}
Names == {<<>>, <<"c">>, <<"c", "c">>, <<"x">>}

RECURSIVE PrefixesOf(_)
PrefixesOf(n) ==
    IF n = 0 THEN {<<>>}
    ELSE {<<>>} \cup {MdbPrefix \o p : p \in PrefixesOf(n - 1)}

Paths == {lead \o prefix \o name :
             lead \in Leads, prefix \in PrefixesOf(MaxPrefixes), name \in Names}

\* Object.values(EXTENSION_COMMANDS): the extension's command identifiers.
EXTENSION_COMMANDS == {MdbPrefix \o <<"c">>, MdbPrefix \o <<"c", "c">>}

\* String.prototype.startsWith
StartsWith(str, prefix) ==
    /\ Len(str) >= Len(prefix)
    /\ SubSeq(str, 1, Len(prefix)) = prefix

\* path.replace(/^\//, '')
StripLeadingSlash(path) ==
    IF Len(path) > 0 /\ path[1] = "/" THEN Tail(path) ELSE path

\* Variant: every command is prefixed.
Normalise_AlwaysPrefix(path) == MdbPrefix \o StripLeadingSlash(path)

\* _handleDeepLink: the command of a URI path.
Normalise(path) ==
    LET command == StripLeadingSlash(path)
    IN  IF StartsWith(command, MdbPrefix) THEN command
        ELSE MdbPrefix \o command

\* Variant: the command is executed whatever it is.
IsExtensionCommand_Any(command) == TRUE

\* Object.values(EXTENSION_COMMANDS).includes(command)
IsExtensionCommand(command) == command \in EXTENSION_COMMANDS

\* The values queryString.parse gives a query parameter: a string, a value
\* that is no string (a number, with parseNumbers), or no such key.
Absent == [t |-> "absent", v |-> ""]
UtmSources == {Absent, [t |-> "string", v |-> "s"],
               [t |-> "number", v |-> "1"]}
OtherParameters == {Absent, [t |-> "string", v |-> "y"]}
\* The parsed query of a deep link: utm_source and one other parameter.
NoQuery == [utm_source |-> Absent, a |-> Absent]
Queries == [utm_source : UtmSources, a : OtherParameters]

NoUri == [path |-> <<>>, query |-> NoQuery]
NoLink == [pc |-> "idle", path |-> <<>>, query |-> NoQuery, command |-> <<>>,
           source |-> Undefined, passed |-> NoQuery,
           executed |-> 0, errors |-> 0, error |-> "none", shown |-> NoUri]

\* 'utm_source' in parameters && typeof parameters.utm_source === 'string'
\*     ? parameters.utm_source : undefined
TelemetrySource(query) ==
    IF query.utm_source # Absent /\ query.utm_source.t = "string"
    THEN query.utm_source.v
    ELSE Undefined

\* Variant: the parameters are passed on as they were parsed.
CommandParameters_Keep(query) == query

\* delete parameters.utm_source
CommandParameters(query) == [query EXCEPT !.utm_source = Absent]

\* Variant: the error is not caught, and the handler's promise rejects.
OnCommandError_Rethrow(l, error) == [l EXCEPT !.pc = "rejected", !.error = error]

\* catch (error) { await showErrorMessage(`Failed to handle '${uri}': ...`) }
OnCommandError(l, error) ==
    [l EXCEPT !.pc = "showingError", !.errors = @ + 1, !.error = error,
              !.shown = [path |-> l.path, query |-> l.query]]

\* _handleDeepLink up to its first await: the telemetry event is tracked,
\* then the command is passed to vscode.commands.executeCommand, or the
\* error is thrown, caught and shown.
HandleDeepLinkStep(path, query) ==
    LET command == Normalise(path)
        l == [NoLink EXCEPT !.path = path, !.query = query,
                            !.command = command,
                            !.source = TelemetrySource(query)]
    IN  IF IsExtensionCommand(command)
        THEN [l EXCEPT !.pc = "executing", !.executed = 1,
                       !.passed = CommandParameters(query)]
        ELSE OnCommandError(l, "not registered by the MongoDB extension")

\* _handleDeepLink returns: its parameters are gone; the path, the command
\* and what was done and shown for them are kept for the properties.
Returned(l) ==
    [l EXCEPT !.pc = "done", !.query = NoQuery, !.passed = NoQuery,
              !.source = Undefined, !.shown.query = NoQuery]

\* Variant: the URI handler is registered as soon as activate starts.
ActivatePrelude_HandlerFirst ==
    <<"registerUriHandler", "activateTreeViews", "activateSegmentAnalytics",
      "createParticipant">>

\* activate before `await loadSavedConnections()`.
ActivatePrelude ==
    <<"activateTreeViews", "activateSegmentAnalytics", "createParticipant">>

\* activate after `await startLanguageServer()`.
ActivateRegistrations ==
    <<"registerCommands", "showOverviewPageIfRecentlyInstalled",
      "subscribeToConfigurationChanges", "registerUriHandler", "setContext">>

Done(event) == \E i \in 1..Len(activation.events) : activation.events[i] = event

\* The place of an event among those of activate, 0 when it has not happened.
Place(event) ==
    IF Done(event)
    THEN CHOOSE i \in 1..Len(activation.events) : activation.events[i] = event
    ELSE 0

\* Variant: the overview page is opened whenever nothing is saved.
OpensOverviewPage_IgnoreFlag(shown, saved) == ~saved

\* showOverviewPageIfRecentlyInstalled: !hasBeenShownViewAlready and
\* !this._connectionStorage.hasSavedConnections()
OpensOverviewPage(shown, saved) == ~shown /\ ~saved

\* activate() is called.
Activate ==
    /\ activation.pc = "inactive"
    /\ activation' = [pc |-> "loadSavedConnections", events |-> ActivatePrelude]
    /\ UNCHANGED <<atlasVars, cmdVars, hasBeenShown, hasSavedConnections,
                   overviewOpened, link, prevLink>>

\* `await this._connectionController.loadSavedConnections()` completes.
ConnectionsLoaded ==
    /\ activation.pc = "loadSavedConnections"
    /\ \/ activation' = [pc |-> "startLanguageServer",
                         events |-> Append(activation.events,
                                           "loadSavedConnections")]
       \/ activation' = [activation EXCEPT !.pc = "failed"]
    /\ UNCHANGED <<atlasVars, cmdVars, hasBeenShown, hasSavedConnections,
                   overviewOpened, link, prevLink>>

\* `await this._languageServerController.startLanguageServer()` completes,
\* and activate runs to its end.
LanguageServerStarted ==
    /\ activation.pc = "startLanguageServer"
    /\ \/ /\ activation' = [pc |-> "active",
                            events |-> Append(activation.events,
                                              "startLanguageServer")
                                       \o ActivateRegistrations]
          \* showOverviewPageIfRecentlyInstalled
          /\ overviewOpened' = IF OpensOverviewPage(hasBeenShown,
                                                    hasSavedConnections)
                               THEN overviewOpened + 1
                               ELSE overviewOpened
          /\ hasBeenShown' = TRUE
       \/ /\ activation' = [activation EXCEPT !.pc = "failed"]
          /\ UNCHANGED <<overviewOpened, hasBeenShown>>
    /\ UNCHANGED <<atlasVars, cmdVars, hasSavedConnections, link, prevLink>>

\* The host calls the registered URI handler with a deep link.
HandleDeepLink ==
    /\ Done("registerUriHandler")
    /\ link.pc \in {"idle", "done"}
    /\ \E path \in Paths, query \in Queries :
          link' = HandleDeepLinkStep(path, query)
    /\ prevLink' = link
    /\ UNCHANGED <<atlasVars, cmdVars, activation, hasBeenShown, hasSavedConnections,
                   overviewOpened>>

\* `await vscode.commands.executeCommand(command, parameters)` completes.
CommandExecuted ==
    /\ link.pc = "executing"
    /\ \/ link' = Returned(link)
       \/ link' = OnCommandError(link, "command failed")
    /\ UNCHANGED <<atlasVars, cmdVars, activation, hasBeenShown, hasSavedConnections,
                   overviewOpened, prevLink>>

\* `await vscode.window.showErrorMessage(...)` completes.
ErrorMessageClosed ==
    /\ link.pc = "showingError"
    /\ link' = Returned(link)
    /\ UNCHANGED <<atlasVars, cmdVars, activation, hasBeenShown, hasSavedConnections,
                   overviewOpened, prevLink>>

(***************************************************************************)
(* MDBExtensionController: the registered commands.                        *)
(***************************************************************************)
MaxSessions == 2

\* Commands whose handler awaits an operation of the tree item and reports
\* its outcome.
OperationCommands ==
    {"MDB_DROP_DATABASE", "MDB_DROP_COLLECTION",
     "MDB_DELETE_DOCUMENT_FROM_TREE_VIEW", "MDB_START_STREAM_PROCESSOR",
     "MDB_STOP_STREAM_PROCESSOR", "MDB_DROP_STREAM_PROCESSOR"}

\* Commands that open a playground for a connection tree item.
AddCommands == {"MDB_ADD_DATABASE", "MDB_ADD_STREAM_PROCESSOR"}

\* The tree refresh commands.
RefreshCommands ==
    {"MDB_REFRESH_CONNECTION", "MDB_REFRESH_DATABASE",
     "MDB_REFRESH_COLLECTION", "MDB_REFRESH_DOCUMENT_LIST",
     "MDB_REFRESH_SCHEMA", "MDB_REFRESH_INDEXES"}

\* A command whose handler only delegates to another component.
DelegatingCommands == {"MDB_RENAME_CONNECTION"}

\* A command registered through registerParticipantCommand.
ParticipantCommands == {"RUN_PARTICIPANT_CODE"}

Commands == OperationCommands \cup AddCommands \cup RefreshCommands
                \cup DelegatingCommands \cup ParticipantCommands

\* registerCommands: registerParticipantCommand registers only when there
\* is a participant.
Registered ==
    IF ~Done("registerCommands") THEN {}
    ELSE IF participant THEN Commands
    ELSE Commands \ ParticipantCommands

ConnectionIds == {"conn1", "conn2"}

\* What an add command reads of the connection controller.
NoConnection == [active |-> Null, disconnecting |-> FALSE,
                 connecting |-> FALSE]
Connections == [active : ConnectionIds \cup {Null}, disconnecting : BOOLEAN,
                connecting : BOOLEAN]

Ev(kind, arg) == [kind |-> kind, arg |-> arg]

NoCmd == [pc |-> "idle", command |-> "none", element |-> Null,
          conn |-> NoConnection, events |-> <<>>, scope |-> {},
          reported |-> "none", result |-> "none"]

BoolStr(b) == IF b THEN "true" ELSE "false"

\* The handler returns, or its promise settles.
CmdReturn(r, result) == [r EXCEPT !.pc = "done", !.result = result]

CmdDo(r, event) == [r EXCEPT !.events = Append(@, event)]

\* The information message of an operation command.
SuccessMessage(command) ==
    CASE command = "MDB_DROP_DATABASE" -> "Database successfully dropped."
      [] command = "MDB_DROP_COLLECTION" -> "Collection successfully dropped."
      [] command = "MDB_DELETE_DOCUMENT_FROM_TREE_VIEW" ->
            "Document successfully deleted."
      [] command = "MDB_START_STREAM_PROCESSOR" ->
            "Stream processor successfully started."
      [] command = "MDB_STOP_STREAM_PROCESSOR" ->
            "Stream processor successfully stopped."
      [] command = "MDB_DROP_STREAM_PROCESSOR" ->
            "Stream processor successfully dropped."

\* Variant: the view is refreshed whatever the operation reported.
OnOperationReported_AlwaysRefresh(r, outcome) ==
    CmdReturn(CmdDo(CmdDo(r,
        Ev("showInformationMessage", SuccessMessage(r.command))),
        Ev("explorerController.refresh", "")), BoolStr(outcome))

\* if (successfullyDropped) { showInformationMessage; refresh }
\* return successfullyDropped
OnOperationReported(r, outcome) ==
    IF outcome
    THEN CmdReturn(CmdDo(CmdDo(r,
             Ev("showInformationMessage", SuccessMessage(r.command))),
             Ev("explorerController.refresh", "")), BoolStr(outcome))
    ELSE CmdReturn(r, BoolStr(outcome))

\* const outcome = await element.on...Clicked()
OperationHandler(r) ==
    [CmdDo(r, Ev("operation", r.command)) EXCEPT !.pc = "operation"]

\* The error messages of the two add commands.
MissingElementMessage(command) ==
    IF command = "MDB_ADD_DATABASE"
    THEN "Please wait for the connection to finish loading before adding a database."
    ELSE "Please wait for the connection to finish loading before adding a stream processor."

NotActiveMessage(command) ==
    IF command = "MDB_ADD_DATABASE"
    THEN "Please connect to this connection before adding a database."
    ELSE "Please connect to this connection before adding a stream processor."

DisconnectingMessage(command) ==
    IF command = "MDB_ADD_DATABASE"
    THEN "Unable to add database: currently disconnecting."
    ELSE "Unable to add stream processor: currently disconnecting."

ConnectingMessage(command) ==
    IF command = "MDB_ADD_DATABASE"
    THEN "Unable to add database: currently connecting."
    ELSE "Unable to add stream processor: currently connecting."

\* void vscode.window.showErrorMessage(message); return false
AddRefused(r, message) ==
    CmdReturn(CmdDo(r, Ev("showErrorMessage", message)), "false")

\* return this._playgroundController.createPlaygroundFor...(element)
CreatePlayground(r) ==
    [CmdDo(r, Ev("createPlayground", r.command)) EXCEPT !.pc = "playground"]

\* Variant: the connecting test comes before the disconnecting test.
AddHandler_ConnectingFirst(r) ==
    IF r.element = Null
    THEN AddRefused(r, MissingElementMessage(r.command))
    ELSE IF r.element # r.conn.active
    THEN AddRefused(r, NotActiveMessage(r.command))
    ELSE IF r.conn.connecting
    THEN AddRefused(r, ConnectingMessage(r.command))
    ELSE IF r.conn.disconnecting
    THEN AddRefused(r, DisconnectingMessage(r.command))
    ELSE CreatePlayground(r)

\* The handlers of MDB_ADD_DATABASE and MDB_ADD_STREAM_PROCESSOR.
AddHandler(r) ==
    IF r.element = Null
    THEN AddRefused(r, MissingElementMessage(r.command))
    ELSE IF r.element # r.conn.active
    THEN AddRefused(r, NotActiveMessage(r.command))
    ELSE IF r.conn.disconnecting
    THEN AddRefused(r, DisconnectingMessage(r.command))
    ELSE IF r.conn.connecting
    THEN AddRefused(r, ConnectingMessage(r.command))
    ELSE CreatePlayground(r)

\* The argument of LanguageServerController.resetCache.
Scope_Everything(command) ==
    {"databases", "collections", "fields", "streamProcessors"}

Scope(command) ==
    CASE command = "MDB_REFRESH_CONNECTION" ->
            {"databases", "collections", "fields", "streamProcessors"}
      [] command = "MDB_REFRESH_DATABASE" -> {"collections", "fields"}
      [] command \in {"MDB_REFRESH_COLLECTION", "MDB_REFRESH_DOCUMENT_LIST",
                      "MDB_REFRESH_SCHEMA"} -> {"fields"}
      [] OTHER -> {}

\* this._explorerController.refresh(), then
\* await this._languageServerController.resetCache(scope); MDB_REFRESH_INDEXES
\* returns Promise.resolve(true) after the refresh.
RefreshExplorer(r) ==
    LET q == CmdDo(r, Ev("explorerController.refresh", ""))
    IN  IF r.command = "MDB_REFRESH_INDEXES"
        THEN CmdReturn(q, "true")
        ELSE [CmdDo(q, Ev("languageServerController.resetCache", ""))
                 EXCEPT !.pc = "lsReset", !.scope = Scope(r.command)]

\* treeItem.resetCache(), awaited by MDB_REFRESH_DOCUMENT_LIST only.
RefreshHandler(r) ==
    LET q == CmdDo(r, Ev("treeItem.resetCache", ""))
    IN  IF r.command = "MDB_REFRESH_DOCUMENT_LIST"
        THEN [q EXCEPT !.pc = "itemReset"]
        ELSE RefreshExplorer(q)

\* The handler only calls another component and returns its promise.
DelegatingHandler(r) ==
    [CmdDo(r, Ev("delegate", r.command)) EXCEPT !.pc = "delegate"]

\* The handler registered for the command.
CommandHandler(r) ==
    CASE r.command \in OperationCommands -> OperationHandler(r)
      [] r.command \in AddCommands -> AddHandler(r)
      [] r.command \in RefreshCommands -> RefreshHandler(r)
      [] OTHER -> DelegatingHandler(r)

\* Variant: the event is recorded after the handler was called.
CommandHandlerWithTelemetry_HandlerFirst(r) ==
    LET q == CommandHandler(CmdDo(r, Ev("handler", r.command)))
    IN  CmdDo(q, Ev("track", r.command))

\* this._telemetryService.track(new CommandRunTelemetryEvent(command));
\* return commandHandler(args)
CommandHandlerWithTelemetry(r) ==
    CommandHandler(CmdDo(CmdDo(r, Ev("track", r.command)),
                         Ev("handler", r.command)))

\* The host runs a registered command.
InvokeCommand ==
    /\ cmd.pc \in {"idle", "done"}
    /\ \E command \in Registered :
          \/ /\ command \in AddCommands
             /\ \E element \in ConnectionIds \cup {Null}, conn \in Connections :
                   cmd' = CommandHandlerWithTelemetry(
                            [NoCmd EXCEPT !.command = command,
                                          !.element = element,
                                          !.conn = conn])
          \/ /\ command \notin AddCommands
             /\ cmd' = CommandHandlerWithTelemetry(
                          [NoCmd EXCEPT !.command = command])
    /\ UNCHANGED <<atlasVars, activation, hasBeenShown, hasSavedConnections,
                   overviewOpened, link, prevLink, participant, deact,
                   sessions>>

\* `await element.on...Clicked()` completes.
OperationReported ==
    /\ cmd.pc = "operation"
    /\ \/ \E outcome \in BOOLEAN :
             cmd' = OnOperationReported(
                        [cmd EXCEPT !.reported = BoolStr(outcome)], outcome)
       \/ cmd' = CmdReturn(cmd, "throw")
    /\ UNCHANGED <<atlasVars, activation, hasBeenShown, hasSavedConnections,
                   overviewOpened, link, prevLink, participant, deact,
                   sessions>>

\* `await documentsListTreeItem.resetCache()` completes.
ItemCacheReset ==
    /\ cmd.pc = "itemReset"
    /\ \/ cmd' = RefreshExplorer(cmd)
       \/ cmd' = CmdReturn(cmd, "throw")
    /\ UNCHANGED <<atlasVars, activation, hasBeenShown, hasSavedConnections,
                   overviewOpened, link, prevLink, participant, deact,
                   sessions>>

\* `await this._languageServerController.resetCache(...)` completes.
LanguageServerCacheReset ==
    /\ cmd.pc = "lsReset"
    /\ \/ cmd' = CmdReturn(cmd, "true")
       \/ cmd' = CmdReturn(cmd, "throw")
    /\ UNCHANGED <<atlasVars, activation, hasBeenShown, hasSavedConnections,
                   overviewOpened, link, prevLink, participant, deact,
                   sessions>>

\* The promise of the component the handler delegated to settles.
Delegated ==
    /\ cmd.pc \in {"playground", "delegate"}
    /\ \E result \in {"true", "false", "throw"} :
          cmd' = CmdReturn(cmd, result)
    /\ UNCHANGED <<atlasVars, activation, hasBeenShown, hasSavedConnections,
                   overviewOpened, link, prevLink, participant, deact,
                   sessions>>

(***************************************************************************)
(* MDBExtensionController: deactivate and dispose.                         *)
(***************************************************************************)
NoDeactivation == [pc |-> "idle", entry |-> "none", events |-> <<>>]

\* deactivate after `await this._languageServerController.deactivate()`.
DeactivateRest ==
    <<"explorerController.deactivate", "helpExplorer.deactivate",
      "playgroundsExplorer.deactivate", "playgroundController.deactivate",
      "telemetryService.deactivate", "editorsController.deactivate",
      "webviewController.deactivate",
      "activeConnectionCodeLensProvider.deactivate",
      "connectionController.deactivate">>

\* Variant: the language server's deactivation is not awaited.
OnDisconnected_NoAwait(d) ==
    [d EXCEPT !.pc = "done",
              !.events = @ \o <<"disconnect completed",
                                "languageServerController.deactivate">>
                             \o DeactivateRest]

\* deactivate after `await this._connectionController.disconnect()`; the
\* completion of what was awaited is recorded with the calls.
OnDisconnected(d) ==
    [d EXCEPT !.pc = "languageServerController.deactivate",
              !.events = @ \o <<"disconnect completed",
                                "languageServerController.deactivate">>]

\* deactivate after `await this._languageServerController.deactivate()`.
OnLanguageServerDeactivated(d) ==
    [d EXCEPT !.pc = "done",
              !.events = Append(@, "deactivate completed")
                             \o DeactivateRest]

\* deactivate up to its first await.
DeactivateStep(entry) ==
    [pc |-> "connectionController.disconnect", entry |-> entry,
     events |-> <<"connectionController.disconnect">>]

\* deactivate() is called.
Deactivate ==
    /\ activation.pc # "inactive"
    /\ deact.pc = "idle"
    /\ deact' = DeactivateStep("deactivate")
    /\ UNCHANGED <<atlasVars, activation, hasBeenShown, hasSavedConnections,
                   overviewOpened, link, prevLink, participant, cmd,
                   sessions>>

\* dispose() is called: `await this.deactivate()`.
Dispose ==
    /\ activation.pc # "inactive"
    /\ deact.pc = "idle"
    /\ deact' = DeactivateStep("dispose")
    /\ UNCHANGED <<atlasVars, activation, hasBeenShown, hasSavedConnections,
                   overviewOpened, link, prevLink, participant, cmd,
                   sessions>>

\* `await this._connectionController.disconnect()` completes.
Disconnected ==
    /\ deact.pc = "connectionController.disconnect"
    /\ \/ deact' = OnDisconnected(deact)
       \/ deact' = [deact EXCEPT !.pc = "failed"]
    /\ UNCHANGED <<atlasVars, activation, hasBeenShown, hasSavedConnections,
                   overviewOpened, link, prevLink, participant, cmd,
                   sessions>>

\* `await this._languageServerController.deactivate()` completes.
LanguageServerDeactivated ==
    /\ deact.pc = "languageServerController.deactivate"
    /\ \/ deact' = OnLanguageServerDeactivated(deact)
       \/ deact' = [deact EXCEPT !.pc = "failed"]
    /\ UNCHANGED <<atlasVars, activation, hasBeenShown, hasSavedConnections,
                   overviewOpened, link, prevLink, participant, cmd,
                   sessions>>

\* The host starts again over the same storage: a new controller, not yet
\* activated; connections may have been saved or removed meanwhile.
NewSession ==
    /\ sessions < MaxSessions
    /\ activation.pc # "inactive"
    /\ sessions' = sessions + 1
    /\ activation' = [pc |-> "inactive", events |-> <<>>]
    /\ cmd' = NoCmd
    /\ deact' = NoDeactivation
    /\ link' = NoLink
    /\ prevLink' = NoLink
    /\ participant' \in BOOLEAN
    /\ hasSavedConnections' \in BOOLEAN
    /\ UNCHANGED <<atlasVars, hasBeenShown, overviewOpened>>

(***************************************************************************)
(* The specifications: the Atlas API client, and the extension controller. *)
(***************************************************************************)
InitAtlas ==
    /\ now = 0
    /\ tokenData = NoToken
    /\ clientCreds = NoCreds
    /\ projectId = Null
    /\ storedClientId \in ClientIds \cup {Null}
    /\ secrets \in [SecretKeys -> Secrets \cup {Null}]
    /\ secrets[<<"atlasClientSecret_", Null>>] = Null
    /\ optedIn = Null
    /\ globalClientId = Null
    /\ clearing = Null
    /\ controllers = 1
    /\ issued = 0
    /\ calls = [c \in Calls |-> IdleCall]

InitExtension ==
    /\ activation = [pc |-> "inactive", events |-> <<>>]
    /\ hasBeenShown \in BOOLEAN
    /\ hasSavedConnections \in BOOLEAN
    /\ overviewOpened = 0
    /\ link = NoLink
    /\ prevLink = NoLink
    /\ participant \in BOOLEAN
    /\ cmd = NoCmd
    /\ deact = NoDeactivation
    /\ sessions = 1

Init ==
    /\ InitAtlas
    /\ InitExtension
    /\ hasBeenShown = FALSE
    /\ hasSavedConnections = FALSE
    /\ participant = TRUE

InitExt ==
    /\ InitAtlas
    /\ InitExtension
    /\ participant = TRUE
    /\ storedClientId = Null
    /\ \A key \in SecretKeys : secrets[key] = Null

Next ==
    \/ \E c \in Calls :
          \/ GetProjects(c)
          \/ GetProjectId(c)
          \/ SelectCluster(c)
          \/ FetchSchemaAdvice(c)
          \/ FetchSuggestedIndexes(c)
          \/ SecretRead(c)
          \/ PromptClientId(c)
          \/ PromptClientSecret(c)
          \/ SaveClientId(c)
          \/ SaveClientSecret(c)
          \/ TokenResponse(c)
          \/ AfterRefresh(c)
          \/ ApiFailure(c)
          \/ ProjectsResponse(c)
          \/ PickProject(c)
          \/ ClustersResponse(c)
          \/ PickCluster(c)
          \/ AdviceResponse(c)
    \/ Tick

\* The credentials, the opt-in and the storage under them.
InitStore ==
    /\ Init
    /\ storedClientId = Null
    /\ \A key \in SecretKeys : secrets[key] = Null

NextStore ==
    \/ \E c \in Calls :
          \/ GetProjects(c)
          \/ SecretRead(c)
          \/ PromptClientId(c)
          \/ PromptClientSecret(c)
          \/ SaveClientId(c)
          \/ SaveClientSecret(c)
          \/ TokenResponse(c)
          \/ AfterRefresh(c)
          \/ ApiFailure(c)
          \/ ProjectsResponse(c)
          \/ IsOptedIn(c)
          \/ OptInAnswered(c)
          \/ OptInStored(c)
    \/ ClearCredentials
    \/ CredentialsCleared
    \/ NewController

NextExt ==
    \/ Activate
    \/ ConnectionsLoaded
    \/ LanguageServerStarted
    \/ HandleDeepLink
    \/ CommandExecuted
    \/ ErrorMessageClosed

\* The registered commands, deactivation, and activations over one storage.
InitCmd ==
    /\ InitAtlas
    /\ InitExtension
    /\ storedClientId = Null
    /\ \A key \in SecretKeys : secrets[key] = Null

NextCmd ==
    \/ Activate
    \/ ConnectionsLoaded
    \/ LanguageServerStarted
    \/ InvokeCommand
    \/ OperationReported
    \/ ItemCacheReset
    \/ LanguageServerCacheReset
    \/ Delegated
    \/ Deactivate
    \/ Dispose
    \/ Disconnected
    \/ LanguageServerDeactivated
    \/ NewSession

Spec == Init /\ [][Next]_vars

SpecCmd == InitCmd /\ [][NextCmd]_vars

SpecExt == InitExt /\ [][NextExt]_vars

SpecStore == InitStore /\ [][NextStore]_vars

(***************************************************************************)
(* Properties of the Atlas API client.                                     *)
(***************************************************************************)
StaleEntries == {"absent", "expired"}
CredsSteps == {"secretRead", "promptId", "promptSecret", "saveId", "saveSecret"}
CredsErrors == {"Client ID is required", "Client Secret is required"}

\* C1: a _makeRequest entered with an expired cached token (expiresAt <=
\* now) calls the token endpoint exactly once, and the answer to that call
\* has arrived before the API request is sent.
C1_ExpiredTokenRefreshedOnce ==
    \A c \in Calls :
        calls[c].entry = "expired" =>
            /\ calls[c].pc \in {"tokenWait", "afterRefresh", "apiWait"}
            /\ calls[c].tokReqs = 1
            /\ (calls[c].apiReqs > 0 => calls[c].myToken # 0)

C1_Witness ==
    \E c \in Calls :
        /\ calls[c].entry = "expired"
        /\ calls[c].pc = "apiWait"
        /\ calls[c].tokReqs = 1

\* A _makeRequest entered with an absent or expired token ends in this step.
StaleRequestEnds(c) ==
    /\ calls[c].entry \in StaleEntries
    /\ calls[c].pc # "done"
    /\ calls'[c].pc = "done"

\* A stale _makeRequest that ends without a token request has thrown for
\* want of client credentials: a prompt was dismissed or left empty.
EndsWithoutTokenRequest(c) ==
    /\ calls[c].tokReqs = 0
    /\ calls[c].pc \in {"promptId", "promptSecret"}
    /\ calls'[c].result.kind = "throw"
    /\ calls'[c].result.prefix \in CredsErrors

SentWithCachedToken(c) ==
    (calls'[c].pc = "apiWait" /\ calls[c].pc # "apiWait") =>
        calls'[c].sentToken = tokenData.accessToken

C4_SingleProjectAutoSelected ==
    [][\A c \in Calls :
          (/\ calls[c].op = "getProjectId"
           /\ calls[c].pc = "apiWait"
           /\ calls'[c].pc # "apiWait"
           /\ calls'[c].response.ok
           /\ calls'[c].body.totalCount = 1) =>
              /\ calls'[c].pc = "done"
              /\ calls'[c].result.kind = "return"
              /\ calls'[c].result.id = calls'[c].body.results[1].id
              /\ projectId' = calls'[c].body.results[1].id
              /\ calls'[c].picks = 0]_vars

C4_Witness ==
    \E c \in Calls :
        /\ calls[c].op = "getProjectId"
        /\ calls[c].pc = "done"
        /\ calls[c].response.ok
        /\ calls[c].body = ProjectsBody(<<P2>>)
        /\ calls[c].result.id = "p2"
        /\ projectId = "p2"
        /\ calls[c].picks = 0

\* The message an operation's non-success response is to be thrown with.
ExpectedPrefix(op, url) ==
    CASE url = "token" -> "Failed to refresh access token: "
      [] url = "groups" -> "Failed to fetch projects: "
      [] op = "selectCluster" -> "Failed to fetch clusters: "
      [] op = "fetchSchemaAdvice" -> "Failed to fetch schema advice: "
      [] op = "fetchSuggestedIndexes" -> "Failed to fetch suggested indexes: "

\* C5: a non-success response to getProjects, to selectCluster's cluster
\* list, to fetchSchemaAdvice, to fetchSuggestedIndexes or to the token
\* refresh makes the operation throw an error whose message carries the
\* response's status text; nothing is returned from such a response.
C5_FailureThrowsStatusText ==
    \A c \in Calls :
        ~calls[c].response.ok =>
            /\ calls[c].pc = "done"
            /\ calls[c].result.kind = "throw"
            /\ calls[c].result.statusText = calls[c].response.statusText
            /\ calls[c].result.statusText \in StatusTexts
            /\ calls[c].result.prefix =
                  ExpectedPrefix(calls[c].op, calls[c].response.url)

C5_Witness ==
    \E c, d \in Calls :
        /\ calls[c].op = "selectCluster"
        /\ calls[c].response = Failure("clusters", "Forbidden")
        /\ calls[c].result.kind = "throw"
        /\ calls[d].response = Failure("token", "Unauthorized")
        /\ calls[d].result.kind = "throw"

\* C6: no retry: one _makeRequest of getProjects, fetchSchemaAdvice,
\* fetchSuggestedIndexes or selectCluster's cluster list sends at most one
\* request to its API endpoint and at most one to the token endpoint, and
\* a response, success or failure, is followed by no further request.
C6_NoRetry ==
    [][\A c \in Calls :
          /\ calls'[c].apiReqs <= 1
          /\ calls'[c].tokReqs <= 1
          /\ (calls[c].pc = "apiWait" /\ calls'[c] # calls[c]
              /\ calls'[c].response.url = calls[c].ep) =>
                (calls'[c].apiReqs = 0 /\ calls'[c].tokReqs = 0)
          /\ (calls[c].pc = "tokenWait" /\ calls'[c] # calls[c]) =>
                (calls'[c].tokReqs = IF calls'[c].pc = "done" THEN 0 ELSE 1)]_vars

C6_Witness ==
    \E c \in Calls :
        /\ calls[c].pc = "done"
        /\ calls[c].op \in {"getProjects", "fetchSchemaAdvice",
                            "fetchSuggestedIndexes", "selectCluster"}
        /\ ~calls[c].response.ok
        /\ calls[c].response.url # "token"

\* C10: the cached project ID needs no locking: under any interleaving of
\* getProjectId calls all their non-null results are the same project ID,
\* and _projectId, once set to a non-null value, never changes.
C10_CachedProjectIdStable ==
    [][/\ projectId # Null => projectId' = projectId
       /\ \A c, d \in Calls :
             (/\ calls'[c].op = "getProjectId" /\ calls'[c].pc = "done"
              /\ calls'[d].op = "getProjectId" /\ calls'[d].pc = "done"
              /\ calls'[c].result.kind = "return" /\ calls'[c].result.id # Null
              /\ calls'[d].result.kind = "return" /\ calls'[d].result.id # Null) =>
                calls'[c].result.id = calls'[d].result.id]_vars

(***************************************************************************)
(* Properties of the extension controller.                                 *)
(***************************************************************************)
Handled == {l \in {link, prevLink} : l.pc # "idle"}

\* C7: a deep link whose normalised command is not one of the values of
\* EXTENSION_COMMANDS is never passed to vscode.commands.executeCommand;
\* exactly one error message is shown for it, saying that the command is
\* not registered by the MongoDB extension.
C7_UnknownCommandNotExecuted ==
    \A l \in Handled :
        l.command \notin EXTENSION_COMMANDS =>
            /\ l.executed = 0
            /\ l.errors = 1
            /\ l.error = "not registered by the MongoDB extension"
            /\ l.pc \in {"showingError", "done"}

C7_Witness ==
    /\ link.pc = "done"
    /\ link.path = Slash \o <<"x">>
    /\ link.command \notin EXTENSION_COMMANDS
    /\ link.executed = 0
    /\ link.errors = 1

C9_ActivationOrder ==
    /\ Done("registerCommands") =>
          /\ 0 < Place("loadSavedConnections")
          /\ Place("loadSavedConnections") < Place("startLanguageServer")
          /\ Place("startLanguageServer") < Place("registerCommands")
    /\ Done("registerUriHandler") =>
          /\ 0 < Place("registerCommands")
          /\ Place("registerCommands") < Place("registerUriHandler")
    /\ Handled # {} => Done("registerCommands")

C9_Witness ==
    /\ activation.pc = "active"
    /\ Done("registerCommands")
    /\ link.pc = "executing"

(***************************************************************************)
(* Further properties of the Atlas API client.                             *)
(***************************************************************************)
\* The token endpoint answers call c's token request in this step.
TokenAnswered(c) ==
    /\ calls[c].pc = "tokenWait"
    /\ calls'[c] # calls[c]

\* C11: when the token refresh fails (the token endpoint's response is not
\* ok) _makeRequest throws, the cached token data is what it was before
\* (still absent, or still the expired token), and no request is sent to
\* the Atlas API endpoint.
C11_RefreshFailureThrows ==
    [][\A c \in Calls :
          (TokenAnswered(c) /\ ~calls'[c].response.ok) =>
             /\ calls'[c].response.url = "token"
             /\ tokenData' = tokenData
             /\ calls'[c].pc = "done"
             /\ calls'[c].result.kind = "throw"
             /\ calls'[c].result.prefix = "Failed to refresh access token: "
             /\ calls'[c].result.statusText = calls'[c].response.statusText
             /\ calls[c].apiReqs = 0
             /\ calls'[c].apiReqs = 0
             /\ issued' = issued]_vars

\* A refresh of an expired token has failed, and the expired token is
\* still the cached one.
C11_Witness ==
    \E c \in Calls :
        /\ calls[c].pc = "done"
        /\ calls[c].response.url = "token"
        /\ ~calls[c].response.ok
        /\ calls[c].result.kind = "throw"
        /\ issued = 1
        /\ tokenData.accessToken = 1
        /\ tokenData.expiresAt <= now

\* The names of the clusters (or projects) of a response body.
NamesOf(body) == {body.results[i].name : i \in 1..Len(body.results)}

\* The places in a cluster list of the clusters whose standardSrv contains
\* the connection string or is contained in it.
Matches(body, cs) ==
    {i \in 1..Len(body.results) :
        \/ Includes(body.results[i].srv, cs)
        \/ Includes(cs, body.results[i].srv)}

\* The cluster list arrives at call c in this step.
ClustersArrive(c) ==
    /\ calls[c].pc = "apiWait"
    /\ calls[c].ep = "clusters"
    /\ calls'[c].response = Success("clusters")

\* C15: selectCluster returns, without showing the cluster quick pick, the
\* name of the first cluster whose standardSrv contains the given
\* connection string or is contained in it; without a connection string or
\* without a match it shows the quick pick; its result is null or the name
\* of a cluster of the fetched list; and when no project ID is given and
\* getProjectId yields none it returns null without requesting the
\* cluster list.
C15_SelectCluster ==
    [][\A c \in Calls :
          LET r == calls[c]
              q == calls'[c]
              hits == Matches(q.body, r.cs)
          IN  /\ (ClustersArrive(c) /\ r.cs # <<>> /\ hits # {}) =>
                    /\ q.pc = "done"
                    /\ q.picks = r.picks
                    /\ q.result.kind = "return"
                    /\ \E i \in hits :
                          /\ \A j \in hits : i <= j
                          /\ q.result.id = q.body.results[i].name
              /\ (ClustersArrive(c) /\ q.body.totalCount > 0
                    /\ (r.cs = <<>> \/ hits = {})) =>
                    /\ q.pc = "pickCluster"
                    /\ q.picks = r.picks + 1
              /\ (q.op = "selectCluster" /\ q.pc = "done"
                    /\ q.result.kind = "return") =>
                    \/ q.result.id = Null
                    \/ /\ q.response = Success("clusters")
                       /\ q.result.id \in NamesOf(q.body)
              /\ (r.op = "selectCluster" /\ r.pid = Null
                    /\ r.ep = "groups" /\ r.pc \in {"apiWait", "pickProject"}
                    /\ q.pc = "done" /\ q.result.kind = "return") =>
                    /\ q.result.id = Null
                    /\ q.response = Success("groups")
                    /\ projectId' = projectId]_vars

\* The first of two matching clusters was returned without a quick pick.
C15_Witness ==
    \E c \in Calls :
        /\ calls[c].op = "selectCluster"
        /\ calls[c].pc = "done"
        /\ calls[c].body = ClustersBody(<<K3, K2, K1>>)
        /\ calls[c].result.id = K2.name
        /\ calls[c].picks = 0

\* getProjectId is called as call c in this step.
GetProjectIdCalled(c) ==
    /\ calls[c].pc \in {"idle", "done"}
    /\ calls'[c].op = "getProjectId"
    /\ calls'[c] # calls[c]

\* getProjectId (call c) returns null in this step.
ReturnsNoProject(c) ==
    /\ calls[c].op = "getProjectId"
    /\ calls[c].pc \in {"apiWait", "pickProject"}
    /\ calls'[c].pc = "done"
    /\ calls'[c].result.kind = "return"
    /\ calls'[c].result.id = Null

\* C16: getProjectId caches only successful selections: a call that
\* returns null (no projects, quick pick dismissed, picked name not found)
\* leaves _projectId as it is, so with _projectId null the next call
\* fetches the project list again; once _projectId is not null a call
\* returns the cached ID with no network request and no prompt.
C16_ProjectIdCachedOnSuccess ==
    [][\A c \in Calls :
          LET q == calls'[c]
          IN  /\ ReturnsNoProject(c) => projectId' = projectId
              /\ (GetProjectIdCalled(c) /\ projectId = Null) =>
                    /\ q.ep = "groups"
                    /\ q.pc \in CredsSteps \cup {"tokenWait", "apiWait"}
              /\ (GetProjectIdCalled(c) /\ projectId # Null) =>
                    /\ q.pc = "done"
                    /\ q.result.kind = "return"
                    /\ q.result.id = projectId
                    /\ q.ep = "none"
                    /\ q.tokReqs = 0 /\ q.apiReqs = 0
                    /\ q.response = NoResponse
                    /\ q.picks = 0
                    /\ projectId' = projectId
              /\ (projectId' # projectId) =>
                    \E d \in Calls :
                        /\ calls[d].op \in {"getProjectId", "selectCluster"}
                        /\ calls[d].pc \in {"apiWait", "pickProject"}
                        /\ calls[d].ep = "groups"
                        /\ calls'[d] # calls[d]
                        /\ projectId' \in {P1.id, P2.id}
                        /\ calls'[d].op = "getProjectId" =>
                              calls'[d].result.id = projectId']_vars

\* One call returned null after its quick pick was dismissed; later the ID
\* was set, and a call returned it from the cache without any request.
C16_Witness ==
    \E c, d \in Calls :
        /\ calls[d].op = "getProjectId"
        /\ calls[d].pc = "done"
        /\ calls[d].result.kind = "return"
        /\ calls[d].result.id = Null
        /\ calls[d].picks = 1
        /\ calls[c].op = "getProjectId"
        /\ calls[c].pc = "done"
        /\ calls[c].response = NoResponse
        /\ calls[c].result.id = projectId
        /\ projectId # Null

\* isOptedIn is called as call c in this step.
IsOptedInCalled(c) ==
    /\ calls[c].pc \in {"idle", "done"}
    /\ calls'[c].op = "isOptedIn"
    /\ calls'[c] # calls[c]

\* C14: isOptedIn returns a stored opt-in value without prompting; with
\* nothing stored it prompts; dismissing the prompt returns false and
\* stores nothing, so that the next call prompts again; Yes stores true
\* and returns true, No stores false and returns false, and once a value
\* is stored no call prompts.
C14_OptIn ==
    [][\A c \in Calls :
          LET r == calls[c]
              q == calls'[c]
          IN  /\ (IsOptedInCalled(c) /\ optedIn # Null) =>
                    /\ q.pc = "done"
                    /\ q.result.kind = "return"
                    /\ q.result.id = optedIn
                    /\ q.picks = 0
                    /\ optedIn' = optedIn
              /\ (IsOptedInCalled(c) /\ optedIn = Null) =>
                    /\ q.pc = "optPrompt"
                    /\ q.picks = 1
                    /\ optedIn' = Null
              /\ (r.pc = "optPrompt" /\ q # r /\ controllers' = controllers) =>
                    /\ optedIn' = optedIn
                    /\ q.picks = 1
                    /\ \/ q.pc \in {"setOptedInTrue", "setOptedInFalse"}
                       \/ /\ q.pc = "done"
                          /\ q.result.kind = "return"
                          /\ q.result.id = "false"
              /\ (r.pc = "setOptedInTrue" /\ q # r) =>
                    /\ optedIn' = "true"
                    /\ q.pc = "done"
                    /\ q.result.kind = "return"
                    /\ q.result.id = "true"
              /\ (r.pc = "setOptedInFalse" /\ q # r) =>
                    /\ optedIn' = "false"
                    /\ q.pc = "done"
                    /\ q.result.kind = "return"
                    /\ q.result.id = "false"
              /\ optedIn # Null => optedIn' # Null]_vars

\* One call was dismissed and returned false with nothing stored, and the
\* next call shows the question again.
C14_Witness ==
    \E c, d \in Calls :
        /\ calls[c].op = "isOptedIn"
        /\ calls[c].pc = "done"
        /\ calls[c].result.id = "false"
        /\ calls[c].picks = 1
        /\ optedIn = Null
        /\ calls[d].op = "isOptedIn"
        /\ calls[d].pc = "optPrompt"

\* C17: the client credentials are taken from the in-memory cache, else
\* from the stored ID and the stored secret, else from the input prompts:
\* no prompt is shown when the cache or the storage yields both values;
\* with a stored client ID whose secret is missing only the secret is
\* asked for; the Client ID prompt is shown only when no ID is stored.
C17_CredentialsPriority ==
    [][\A c \in Calls :
          LET r == calls[c]
              q == calls'[c]
              secret == secrets[<<"atlasClientSecret_", r.cid>>]
          IN  /\ (r.pc \notin CredsSteps /\ q.pc \in CredsSteps) =>
                    /\ clientCreds = NoCreds
                    /\ storedClientId # Null =>
                          (q.pc = "secretRead" /\ q.cid = storedClientId)
                    /\ storedClientId = Null => q.pc = "promptId"
              /\ (r.pc = "secretRead" /\ q # r /\ secret # Null) =>
                    /\ q.pc = "tokenWait"
                    /\ clientCreds' = [clientId |-> r.cid,
                                       clientSecret |-> secret]
              /\ (q.pc = "promptId" /\ r.pc # "promptId") =>
                    (storedClientId = Null /\ clientCreds = NoCreds)
              /\ (q.pc = "promptSecret" /\ r.pc # "promptSecret") =>
                    \/ r.pc = "promptId"
                    \/ /\ r.pc = "secretRead"
                       /\ r.cid # Null
                       /\ q.cid = r.cid
                       /\ secret = Null]_vars

\* A client ID is stored without its secret, and only the secret is being
\* asked for.
C17_Witness ==
    \E c, d \in Calls :
        /\ calls[c].pc = "promptSecret"
        /\ calls[c].cid = storedClientId
        /\ storedClientId # Null
        /\ clientCreds = NoCreds
        /\ calls[d].pc = "idle"

\* What a prompt that call c had open was answered with in this step is
\* no client ID, or no client secret.
NoClientIdGiven(c) ==
    /\ calls[c].pc = "promptId"
    /\ calls'[c] # calls[c]
    /\ calls'[c].cid \notin ClientIds

NoClientSecretGiven(c) ==
    /\ calls[c].pc = "promptSecret"
    /\ calls'[c] # calls[c]
    /\ calls'[c].sec \notin Secrets

\* C19: when the Client ID prompt or the Client Secret prompt is left
\* empty or dismissed, the operation throws 'Client ID is required' or
\* 'Client Secret is required', nothing is written to the key-value or the
\* secret storage, the in-memory credentials are not set, and no request
\* is sent to the token endpoint or the Atlas API.
C19_EmptyPromptThrows ==
    [][\A c \in Calls :
          (NoClientIdGiven(c) \/ NoClientSecretGiven(c)) =>
             /\ calls'[c].pc = "done"
             /\ calls'[c].result.kind = "throw"
             /\ calls'[c].result.prefix =
                   IF calls[c].pc = "promptId" THEN "Client ID is required"
                   ELSE "Client Secret is required"
             /\ storedClientId' = storedClientId
             /\ globalClientId' = globalClientId
             /\ secrets' = secrets
             /\ clientCreds' = clientCreds
             /\ tokenData' = tokenData
             /\ issued' = issued
             /\ calls[c].tokReqs = 0 /\ calls[c].apiReqs = 0
             /\ calls'[c].tokReqs = 0 /\ calls'[c].apiReqs = 0]_vars

\* The secret prompt was dismissed: the call has thrown, and nothing is
\* stored or cached.
C19_Witness ==
    \E c, d \in Calls :
        /\ calls[c].pc = "done"
        /\ calls[c].result.kind = "throw"
        /\ calls[c].result.prefix = "Client Secret is required"
        /\ clientCreds = NoCreds
        /\ storedClientId = Null
        /\ \A key \in SecretKeys : secrets[key] = Null
        /\ calls[d].pc = "idle"

ClearedClientId == IF clearing # Null /\ clearing' = Null THEN clearing ELSE Null

\* C20: when clearCredentials completes with a client ID stored,
\* getStoredClientId returns null and the secret stored for that client ID
\* is deleted, so that getStoredClientSecret returns null.
C20_ClearCredentials ==
    [][ClearedClientId # Null =>
          /\ GetStoredClientId' = Null
          /\ secrets'[<<"atlasClientSecret_", ClearedClientId>>] = Null
          /\ GetStoredClientSecret' = Null]_vars

\* Call c sends a request to the Atlas API in this step.
SendsApiRequest(c) == calls'[c].apiReqs > calls[c].apiReqs

\* C21 as stated: every request sent to the Atlas API carries a token that
\* is unexpired (expiresAt later than the current time) when the request
\* is sent, also when the call obtained the token by a refresh.
C21_BearerUnexpired ==
    [][\A c \in Calls :
          SendsApiRequest(c) =>
              /\ tokenData # NoToken
              /\ calls'[c].sentToken = tokenData.accessToken
              /\ tokenData.expiresAt > now]_vars

\* C21 amended: every request sent to the Atlas API carries the token
\* cached at that moment; a request sent without a refresh in the same call
\* carries an unexpired token, while after its refresh the call sends the
\* cached token whatever its expiry.
C21_BearerUnexpiredWithoutRefresh ==
    [][\A c \in Calls :
          SendsApiRequest(c) =>
              /\ tokenData # NoToken
              /\ calls'[c].sentToken = tokenData.accessToken
              /\ calls[c].pc # "afterRefresh" =>
                    (calls'[c].tokReqs = 0 /\ tokenData.expiresAt > now)
              /\ calls[c].pc = "afterRefresh" =>
                    (calls'[c].tokReqs = 1 /\ tokenData' = tokenData)]_vars

\* One request is waiting that was sent with the cached, unexpired token
\* and no refresh, another that was sent after the call's own refresh.
C21_Witness ==
    \E c, d \in Calls :
        /\ calls[c].pc = "apiWait" /\ calls[c].tokReqs = 0
        /\ calls[d].pc = "apiWait" /\ calls[d].tokReqs = 1
        /\ calls[c].sentToken = tokenData.accessToken
        /\ calls[d].sentToken = tokenData.accessToken
        /\ tokenData.expiresAt > now

(***************************************************************************)
(* Further properties of the extension controller.                         *)
(***************************************************************************)
\* C12: an error thrown while a deep-linked command is executed is caught
\* inside _handleDeepLink: the handler's promise never rejects, and every
\* deep link that failed has produced exactly one error message, which
\* names the URI of that deep link.
C12_DeepLinkErrorsCaught ==
    \A l \in Handled :
        /\ l.pc \in {"executing", "showingError", "done"}
        /\ l.error = "none" => (l.errors = 0 /\ l.pc # "showingError")
        /\ l.error # "none" =>
              /\ l.errors = 1
              /\ l.pc \in {"showingError", "done"}
              /\ l.shown.path = l.path
              /\ l.pc = "showingError" => l.shown.query = l.query

\* The executed command has thrown, and the error message is on display.
C12_Witness ==
    /\ link.pc = "showingError"
    /\ link.executed = 1
    /\ link.error = "command failed"
    /\ link.errors = 1
    /\ link.shown = [path |-> link.path, query |-> link.query]
    /\ link.query.utm_source # Absent

\* C13: utm_source is never among the parameters passed to the executed
\* command; the DeepLinkTelemetryEvent carries it as the source when it is
\* a string and undefined otherwise; every other query parameter is passed
\* to the command as it was parsed.
C13_UtmSourceNotPropagated ==
    (link.pc \in {"executing", "showingError"}) =>
        /\ link.passed.utm_source = Absent
        /\ link.executed = 1 => link.passed.a = link.query.a
        /\ link.executed = 0 => link.passed = NoQuery
        /\ link.query.utm_source.t = "string" =>
              link.source = link.query.utm_source.v
        /\ link.query.utm_source.t # "string" => link.source = Undefined

C13_Witness ==
    /\ link.pc = "executing"
    /\ link.query.utm_source.t = "string"
    /\ link.query.a # Absent
    /\ link.source = link.query.utm_source.v
    /\ link.passed = [utm_source |-> Absent, a |-> link.query.a]


\* showOverviewPageIfRecentlyInstalled runs in this step.
OverviewStep ==
    activation.pc = "startLanguageServer" /\ activation'.pc = "active"

\* C22: the overview page is opened only by
\* showOverviewPageIfRecentlyInstalled, and only when the has-been-shown
\* flag is not set and no connections are saved; the flag is set after it
\* ran, whether or not the page was opened, and is never unset; so over the
\* activations sharing the storage the page is opened at most once.
C22_OverviewPageAtMostOnce ==
    [][/\ overviewOpened' # overviewOpened =>
             /\ OverviewStep
             /\ ~hasBeenShown /\ ~hasSavedConnections
             /\ overviewOpened' = overviewOpened + 1
       /\ OverviewStep => hasBeenShown'
       /\ hasBeenShown => hasBeenShown'
       /\ overviewOpened' <= 1]_vars

\* The page was opened in the first session; the second one is about to
\* run showOverviewPageIfRecentlyInstalled with no connections saved.
C22_Witness ==
    /\ sessions = 2
    /\ activation.pc = "startLanguageServer"
    /\ overviewOpened = 1
    /\ hasBeenShown
    /\ ~hasSavedConnections


\* The events of a kind among those of the running command.
EventsOf(kind) ==
    {i \in 1..Len(cmd.events) : cmd.events[i].kind = kind}

\* What every invocation starts with.
Preamble(command) == <<Ev("track", command), Ev("handler", command)>>

\* C23: when an operation command has ended, the explorer was refreshed and
\* the success message shown if and only if the tree item's operation
\* reported success, and what the command returned is what was reported.
C23_OperationOutcome ==
    (cmd.command \in OperationCommands /\ cmd.pc = "done") =>
        /\ cmd.reported = "true" =>
              /\ cmd.result = "true"
              /\ cmd.events = Preamble(cmd.command)
                     \o <<Ev("operation", cmd.command),
                          Ev("showInformationMessage",
                             SuccessMessage(cmd.command)),
                          Ev("explorerController.refresh", "")>>
        /\ cmd.reported # "true" =>
              /\ cmd.result = IF cmd.reported = "false" THEN "false"
                              ELSE "throw"
              /\ EventsOf("explorerController.refresh") = {}
              /\ EventsOf("showInformationMessage") = {}

\* A drop of a database reported success: the message was shown, the view
\* refreshed, and the command returned true.
C23_Witness ==
    /\ cmd.command = "MDB_DROP_DATABASE"
    /\ cmd.pc = "done"
    /\ cmd.reported = "true"
    /\ cmd.result = "true"
    /\ cmd.events[4] = Ev("showInformationMessage",
                          "Database successfully dropped.")
    /\ cmd.events[5] = Ev("explorerController.refresh", "")

\* C24: an add command creates a playground exactly when the element is
\* given, is the active connection, and the controller is neither
\* disconnecting nor connecting; otherwise it returns false with one error
\* message: missing element, else not active, else disconnecting, else
\* connecting.
C24_AddGuards ==
    (cmd.command \in AddCommands /\ cmd.pc # "idle") =>
        LET missing == cmd.element = Null
            inactive == cmd.element # cmd.conn.active
            expected ==
                IF missing THEN MissingElementMessage(cmd.command)
                ELSE IF inactive THEN NotActiveMessage(cmd.command)
                ELSE IF cmd.conn.disconnecting
                THEN DisconnectingMessage(cmd.command)
                ELSE ConnectingMessage(cmd.command)
        IN  IF ~missing /\ ~inactive /\ ~cmd.conn.disconnecting
               /\ ~cmd.conn.connecting
            THEN /\ cmd.events = Preamble(cmd.command)
                        \o <<Ev("createPlayground", cmd.command)>>
                 /\ cmd.pc = "done" => cmd.result # "none"
            ELSE /\ cmd.pc = "done"
                 /\ cmd.result = "false"
                 /\ cmd.events = Preamble(cmd.command)
                        \o <<Ev("showErrorMessage", expected)>>

\* Connecting and disconnecting at once, on the active connection: the
\* message is the one about disconnecting.
C24_Witness ==
    /\ cmd.command = "MDB_ADD_DATABASE"
    /\ cmd.element = "conn1" /\ cmd.conn.active = "conn1"
    /\ cmd.conn.disconnecting /\ cmd.conn.connecting
    /\ cmd.result = "false"
    /\ cmd.events[3] = Ev("showErrorMessage",
                          "Unable to add database: currently disconnecting.")

\* C25: a refresh command resets the cache of its tree item, then refreshes
\* the explorer, then resets the language server's cache with the scope of
\* its level, none for the index list; it returns true.
C25_RefreshScopes ==
    (cmd.command \in RefreshCommands /\ cmd.pc = "done"
        /\ cmd.result # "throw") =>
        /\ cmd.result = "true"
        /\ IF cmd.command = "MDB_REFRESH_INDEXES"
           THEN /\ cmd.events = Preamble(cmd.command)
                       \o <<Ev("treeItem.resetCache", ""),
                            Ev("explorerController.refresh", "")>>
                /\ cmd.scope = {}
           ELSE /\ cmd.events = Preamble(cmd.command)
                       \o <<Ev("treeItem.resetCache", ""),
                            Ev("explorerController.refresh", ""),
                            Ev("languageServerController.resetCache", "")>>
                /\ cmd.command = "MDB_REFRESH_CONNECTION" =>
                      cmd.scope = {"databases", "collections", "fields",
                                   "streamProcessors"}
                /\ cmd.command = "MDB_REFRESH_DATABASE" =>
                      cmd.scope = {"collections", "fields"}
                /\ cmd.command \in {"MDB_REFRESH_COLLECTION",
                                    "MDB_REFRESH_DOCUMENT_LIST",
                                    "MDB_REFRESH_SCHEMA"} =>
                      cmd.scope = {"fields"}

\* A refresh of a database has returned true after resetting collections
\* and fields.
C25_Witness ==
    /\ cmd.command = "MDB_REFRESH_DATABASE"
    /\ cmd.pc = "done"
    /\ cmd.result = "true"
    /\ cmd.scope = {"collections", "fields"}
    /\ Len(cmd.events) = 5

\* C26: every invocation of a registered command records one
\* CommandRunTelemetryEvent of that command, before the handler is called,
\* however the handler ends.
C26_TelemetryBeforeHandler ==
    cmd.pc # "idle" =>
        /\ cmd.command \in Registered
        /\ Len(cmd.events) >= 2
        /\ cmd.events[1] = Ev("track", cmd.command)
        /\ cmd.events[2] = Ev("handler", cmd.command)
        /\ EventsOf("track") = {1}
        /\ EventsOf("handler") = {2}

\* A participant command has thrown; its run was recorded once.
C26_Witness ==
    /\ cmd.command \in ParticipantCommands
    /\ cmd.pc = "done"
    /\ cmd.result = "throw"
    /\ EventsOf("track") = {1}

\* C27: deactivate, and dispose the same, first disconnects, then, when
\* that has completed, deactivates the language server, and when that has
\* completed deactivates the explorers, the playground controller,
\* telemetry, the editors, the webview, the code-lens provider and last the
\* connection controller.
C27_DeactivateOrder ==
    /\ deact.pc = "idle" => deact.events = <<>>
    /\ deact.pc = "connectionController.disconnect" =>
          deact.events = <<"connectionController.disconnect">>
    /\ deact.pc = "languageServerController.deactivate" =>
          deact.events = <<"connectionController.disconnect",
                           "disconnect completed",
                           "languageServerController.deactivate">>
    /\ deact.pc = "failed" =>
          deact.events \in {<<"connectionController.disconnect">>,
                            <<"connectionController.disconnect",
                              "disconnect completed",
                              "languageServerController.deactivate">>}
    /\ deact.pc = "done" =>
          deact.events = <<"connectionController.disconnect",
                           "disconnect completed",
                           "languageServerController.deactivate",
                           "deactivate completed",
                           "explorerController.deactivate",
                           "helpExplorer.deactivate",
                           "playgroundsExplorer.deactivate",
                           "playgroundController.deactivate",
                           "telemetryService.deactivate",
                           "editorsController.deactivate",
                           "webviewController.deactivate",
                           "activeConnectionCodeLensProvider.deactivate",
                           "connectionController.deactivate">>

\* dispose has run to its end.
C27_Witness ==
    /\ deact.entry = "dispose"
    /\ deact.pc = "done"
    /\ Len(deact.events) = 13
    /\ deact.events[4] = "deactivate completed"
    /\ deact.events[13] = "connectionController.deactivate"

====
